---- MODULE Spec2Model ----
(***************************************************************************)
(* Model of the security-key-cached decryption pipeline of the castle      *)
(* proxy client (lib/castle and its api handlers).                          *)
(*                                                                         *)
(* JavaScript strings are sequences of characters, JavaScript values are   *)
(* records tagged by typeof, a response body is the sequence of lexemes    *)
(* the upstream sent, and JSON.parse is an operator over those lexemes.    *)
(***************************************************************************)
EXTENDS Integers, Sequences, FiniteSets, TLC

(***************************************************************************)
(* Bounds of the model.                                                    *)
(***************************************************************************)
\* longest string value generated inside a JSON body
MaxStrLen == 2
\* longest raw (non-JSON) body text generated
MaxRawLen == 2

(***************************************************************************)
(* JavaScript values.                                                      *)
(***************************************************************************)
Undefined == [t |-> "undefined"]
Null == [t |-> "null"]
Num(n) == [t |-> "number", v |-> n]
Str(s) == [t |-> "string", v |-> s]
Obj(f) == [t |-> "object", v |-> f]

\* ToBoolean, as `!x`, `x && ...` and `x || y` apply it
Truthy(x) ==
  CASE x.t = "undefined" -> FALSE
    [] x.t = "null" -> FALSE
    [] x.t = "number" -> x.v # 0
    [] x.t = "string" -> x.v # << >>
    [] OTHER -> TRUE

\* property read `payload.name` on a parsed value
Prop(x, name) ==
  IF x.t = "object" /\ name \in DOMAIN x.v THEN x.v[name] ELSE Undefined

(***************************************************************************)
(* String.prototype.trim                                                   *)
(* A string is a sequence of characters [c |-> ch]; a body text is a        *)
(* sequence of lexemes, of which a character is one kind.                  *)
Whitespace == {" ", "\n"}

Lex(c) == [c |-> c]

IsWs(tok) == "c" \in DOMAIN tok /\ tok.c \in Whitespace

RECURSIVE TrimStart(_)
TrimStart(s) ==
  IF s # << >> /\ IsWs(Head(s)) THEN TrimStart(Tail(s)) ELSE s

RECURSIVE TrimEnd(_)
TrimEnd(s) ==
  IF s # << >> /\ IsWs(s[Len(s)])
  THEN TrimEnd(SubSeq(s, 1, Len(s) - 1))
  ELSE s

TrimStartOnly(s) == TrimStart(s)

Trim(s) == TrimEnd(TrimStart(s))

(***************************************************************************)
(* JSON text.  A body is a sequence of lexemes: the punctuation "{", "}",  *)
(* ":", ",", the literal "null", whitespace, a quoted string literal       *)
(* [str |-> chars], a property name [key |-> name], a number [num |-> n],  *)
(* or a bare character [c |-> ch] that is no JSON token.                   *)
(***************************************************************************)
StrLit(s) == [str |-> s]
KeyLit(k) == [key |-> k]
NumLit(n) == [num |-> n]

IsStrLit(tok) == "str" \in DOMAIN tok
IsKeyLit(tok) == "key" \in DOMAIN tok
IsNumLit(tok) == "num" \in DOMAIN tok
IsPunct(tok, p) == "c" \in DOMAIN tok /\ tok.c = p

\* the lexemes with insignificant whitespace removed
RECURSIVE SkipWs(_)
SkipWs(toks) ==
  IF toks = << >> THEN << >>
  ELSE IF IsWs(Head(toks)) THEN SkipWs(Tail(toks))
  ELSE <<Head(toks)>> \o SkipWs(Tail(toks))

ParseFail == [ok |-> FALSE]
ParseOk(v) == [ok |-> TRUE, value |-> v]

\* a scalar JSON value from one lexeme
ParseScalar(tok) ==
  IF IsStrLit(tok) THEN ParseOk(Str(tok.str))
  ELSE IF IsNumLit(tok) THEN ParseOk(Num(tok.num))
  ELSE IF IsPunct(tok, "null") THEN ParseOk(Null)
  ELSE ParseFail

\* members  ::=  key ":" scalar ( "," members )?   ; a later duplicate wins
RECURSIVE ParseMembers(_, _)
ParseMembers(toks, acc) ==
  IF Len(toks) < 3 THEN ParseFail
  ELSE IF ~ (IsKeyLit(toks[1]) /\ IsPunct(toks[2], ":")) THEN ParseFail
  ELSE LET val == ParseScalar(toks[3])
           rest == SubSeq(toks, 4, Len(toks))
           name == toks[1].key
           acc2 == [k \in (DOMAIN acc) \cup {name} |->
                      IF k = name THEN val.value ELSE acc[k]]
       IN IF ~ val.ok THEN ParseFail
          ELSE IF rest = << >> THEN ParseOk(Obj(acc2))
          ELSE IF IsPunct(rest[1], ",") THEN ParseMembers(Tail(rest), acc2)
          ELSE ParseFail

EmptyFields == [k \in {} |-> Null]

\* JSON.parse of a body text: [ok |-> TRUE, value |-> v] or a SyntaxError
ParseJSON(text) ==
  LET toks == SkipWs(text)
  IN IF toks = << >> THEN ParseFail
     ELSE IF Len(toks) = 1 THEN ParseScalar(toks[1])
     ELSE IF IsPunct(toks[1], "{") /\ IsPunct(toks[Len(toks)], "}")
       THEN IF Len(toks) = 2 THEN ParseOk(Obj(EmptyFields))
            ELSE ParseMembers(SubSeq(toks, 2, Len(toks) - 1), EmptyFields)
     ELSE ParseFail

(***************************************************************************)
(* The fetch Response.  A response with a null-body status carries no      *)
(* body; any other response carries a body stream that can be read once.   *)
(***************************************************************************)
NullBodyStatus == {204}

HasBody(r) == r.status \notin NullBodyStatus

\* the bytes a read of the body yields
BodyText(r) == IF HasBody(r) THEN r.body ELSE << >>

\* a body stream that was read is disturbed: a second read rejects
BodyUnusable(r) == HasBody(r) /\ r.bodyUsed

Consumed(r) == [r EXCEPT !.bodyUsed = HasBody(r)]

\* await response.json(): the value or the rejection, and the response after
ResponseJson(r) ==
  IF BodyUnusable(r)
  THEN [ok |-> FALSE, error |-> "TypeError", value |-> Undefined, resp |-> r]
  ELSE LET parsed == ParseJSON(BodyText(r))
       IN IF parsed.ok
          THEN [ok |-> TRUE, error |-> "", value |-> parsed.value,
                resp |-> Consumed(r)]
          ELSE [ok |-> FALSE, error |-> "SyntaxError", value |-> Undefined,
                resp |-> Consumed(r)]

\* await response.text()
ResponseText(r) ==
  IF BodyUnusable(r)
  THEN [ok |-> FALSE, error |-> "TypeError", value |-> << >>, resp |-> r]
  ELSE [ok |-> TRUE, error |-> "", value |-> BodyText(r), resp |-> Consumed(r)]

(***************************************************************************)
(* extractCipherFromResponse                                               *)
(***************************************************************************)
\* the outcome of an async function: a returned value or a thrown error
Return(v) == [kind |-> "return", value |-> v, error |-> "", status |-> 0,
              url |-> ""]
Throw(e) == [kind |-> "throw", value |-> << >>, error |-> e, status |-> 0,
             url |-> ""]
ThrowEmptyResponse(r) ==
  [kind |-> "throw", value |-> << >>, error |-> "EmptyResponse",
   status |-> r.status, url |-> r.url]

\* contentType.includes("application/json")
JsonContentTypes == {"application/json", "application/json; charset=utf-8"}

IncludesApplicationJson(ct) == ct \in JsonContentTypes

\* payload && typeof payload === "object" && typeof data === "string"
\*   && data.trim()
HasCipherData(payload) ==
  /\ Truthy(payload)
  /\ payload.t = "object"
  /\ Prop(payload, "data").t = "string"
  /\ Trim(Prop(payload, "data").v) # << >>

\* lines 76-82: the text fallback, on the response as the JSON attempt left it
TextFallback(r) ==
  LET t == ResponseText(r)
  IN IF ~ t.ok THEN Throw(t.error)
     ELSE IF Trim(t.value) # << >> THEN Return(Trim(t.value))
     ELSE ThrowEmptyResponse(r)

\* a variant that lets the parse error escape under every content type
extractWithoutCatch(response) ==
  LET j == ResponseJson(response)
  IN IF ~ j.ok THEN Throw(j.error)
     ELSE IF HasCipherData(j.value)
       THEN Return(Trim(Prop(j.value, "data").v))
       ELSE TextFallback(j.resp)

\* a variant that hands an empty text on instead of throwing
extractAllowingEmpty(response) ==
  LET j == ResponseJson(response)
  IN IF j.ok /\ HasCipherData(j.value)
     THEN Return(Trim(Prop(j.value, "data").v))
     ELSE Return(<< >>)

extractCipherFromResponse(response) ==
  LET j == ResponseJson(response)
  IN IF IncludesApplicationJson(response.contentType)
     THEN IF ~ j.ok THEN Throw(j.error)
          ELSE IF HasCipherData(j.value)
            THEN Return(Trim(Prop(j.value, "data").v))
            ELSE TextFallback(j.resp)
     ELSE IF j.ok /\ HasCipherData(j.value)
            THEN Return(Trim(Prop(j.value, "data").v))
            ELSE TextFallback(j.resp)

\* the response object once extraction has read it: json() is always the
\* first read, and it disturbs the body stream
ResponseAfterExtract(response) == Consumed(response)

(***************************************************************************)
(* The upstream's possible answers, as bounded sets.                       *)
(***************************************************************************)
Chars == {Lex(" "), Lex("\n"), Lex("a"), Lex("b")}

StringsUpTo(n) == UNION {[1..k -> Chars] : k \in 0..n}

\* JSON.stringify of a scalar and of an object with the members `fields`
\* (a sequence of <<name, value>>), as lexemes
RenderScalar(v) ==
  IF v.t = "string" THEN StrLit(v.v)
  ELSE IF v.t = "number" THEN NumLit(v.v)
  ELSE Lex("null")

RECURSIVE RenderMembers(_)
RenderMembers(fields) ==
  IF fields = << >> THEN << >>
  ELSE <<KeyLit(fields[1][1]), Lex(":"), RenderScalar(fields[1][2])>>
       \o (IF Len(fields) > 1 THEN <<Lex(",")>> ELSE << >>)
       \o RenderMembers(Tail(fields))

RenderObject(fields) == <<Lex("{")>> \o RenderMembers(fields) \o <<Lex("}")>>

Padded(text) == <<Lex(" ")>> \o text \o <<Lex("\n")>>

\* values of a `data` member, and of a `code` member
DataValues ==
  {Str(s) : s \in StringsUpTo(MaxStrLen)} \cup {Num(0), Num(7), Null}

CodeValues == {Num(200), Num(500)}

FieldLists ==
  {<< >>}
    \cup {<< <<"data", d>> >> : d \in DataValues}
    \cup {<< <<"code", c>> >> : c \in CodeValues}
    \cup {<< <<"code", c>>, <<"data", d>> >> : c \in CodeValues, d \in DataValues}

JsonBodies ==
  {RenderObject(f) : f \in FieldLists} \cup {<<RenderScalar(d)>> : d \in DataValues}

\* bodies that are not JSON: raw text, and an object cut short
RawBodies ==
  StringsUpTo(MaxRawLen)
    \cup {SubSeq(RenderObject(f), 1, Len(RenderObject(f)) - 1) : f \in FieldLists}

ContentBodies ==
  JsonBodies \cup {Padded(b) : b \in JsonBodies} \cup RawBodies

\* the content-type header after `|| ""`
ContentTypes ==
  {"", "text/plain", "application/json", "application/json; charset=utf-8"}

Statuses == {200, 204, 500}

Urls == {"/film-api/v0.1/category/home", "/film-api/v1.1/movie"}

NewResponse(status, ct, body, url) ==
  [status |-> status, contentType |-> ct,
   body |-> IF status \in NullBodyStatus THEN << >> ELSE body,
   bodyUsed |-> FALSE, url |-> url]

ContentResponses ==
  {NewResponse(st, ct, b, u) :
     st \in Statuses, ct \in ContentTypes, b \in ContentBodies, u \in Urls}

(***************************************************************************)
(* deriveKeyFromSec and decryptB64.                                        *)
(* Buffers are sequences of bytes.  The base64 text of a ciphertext is one *)
(* symbolic character [enc |-> key, plain |-> text]: the encryption of     *)
(* `text` under the 16-byte `key` (used as key and IV).                    *)
(***************************************************************************)
\* Buffer.from("T!BgJB", "ascii")
SUFFIX == <<84, 33, 66, 103, 74, 66>>

\* the base64 alphabet, for the characters of the model
Base64Index == [c \in {"a", "b"} |-> IF c = "a" THEN 26 ELSE 27]

IsBase64Char(ch) == "c" \in DOMAIN ch /\ ch.c \in DOMAIN Base64Index

\* the sextets of a base64 text; characters outside the alphabet are skipped
RECURSIVE Sextets(_)
Sextets(s) ==
  IF s = << >> THEN << >>
  ELSE (IF IsBase64Char(Head(s)) THEN <<Base64Index[Head(s).c]>> ELSE << >>)
       \o Sextets(Tail(s))

\* the bytes of a run of sextets: 4 give 3 bytes, 3 give 2, 2 give 1
RECURSIVE SextetsToBytes(_)
SextetsToBytes(x) ==
  IF Len(x) < 2 THEN << >>
  ELSE LET b1 == x[1] * 4 + x[2] \div 16
       IN IF Len(x) = 2 THEN <<b1>>
          ELSE LET b2 == (x[2] % 16) * 16 + x[3] \div 4
               IN IF Len(x) = 3 THEN <<b1, b2>>
                  ELSE <<b1, b2, (x[3] % 4) * 64 + x[4]>>
                       \o SextetsToBytes(SubSeq(x, 5, Len(x)))

\* Buffer.from(text, "base64")
Base64Decode(s) == SextetsToBytes(Sextets(s))

Zeros(n) == [i \in 1..n |-> 0]

\* a variant that never truncates
deriveKeyNoTruncate(secB64) ==
  LET keyMaterial == Base64Decode(secB64) \o SUFFIX
  IN IF Len(keyMaterial) < 16
     THEN keyMaterial \o Zeros(16 - Len(keyMaterial))
     ELSE keyMaterial

deriveKeyFromSec(secB64) ==
  LET keyMaterial == Base64Decode(secB64) \o SUFFIX
  IN IF Len(keyMaterial) < 16
     THEN keyMaterial \o Zeros(16 - Len(keyMaterial))
     ELSE IF Len(keyMaterial) > 16 THEN SubSeq(keyMaterial, 1, 16)
     ELSE keyMaterial

\* the base64 text of AES-128-CBC(plain) under key = iv = `key`
Enc(key, plain) == [enc |-> key, plain |-> plain]

IsEnc(ch) == "enc" \in DOMAIN ch

\* decryptB64(cipherB64, secB64): the outcomes it can settle with.  Under the
\* key the text was encrypted with it returns the plaintext.  Under any other
\* key, or on a text that is no ciphertext, decipher.final() throws, or the
\* padding happens to check and the bytes returned are garbage.
Garbage == <<Lex("\n"), Lex("a")>>

\* a variant that derives the key before it looks at the ciphertext
decryptB64KeyFirst(cipherB64, secB64) ==
  IF secB64.t # "string" THEN {Throw("TypeError")}
  ELSE IF ~ Truthy(cipherB64) THEN {Throw("EmptyCiphertext")}
  ELSE {Throw("DecryptionError")}

\* the arguments are JS values: line 40 is `!cipherB64`, and Buffer.from
\* (lines 26 and 44) throws a TypeError on what is no string
decryptB64(cipherB64, secB64) ==
  IF ~ Truthy(cipherB64) THEN {Throw("EmptyCiphertext")}
  ELSE IF secB64.t # "string" THEN {Throw("TypeError")}
  ELSE IF cipherB64.t # "string" THEN {Throw("TypeError")}
  ELSE LET key == deriveKeyFromSec(secB64.v)
           text == cipherB64.v
       IN IF Len(text) = 1 /\ IsEnc(text[1]) /\ text[1].enc = key
          THEN {Return(text[1].plain)}
          ELSE {Throw("DecryptionError"), Return(Garbage)}

\* a variant that returns the decrypted text as it is
DecryptNoParse(cipherText, securityKey) ==
  decryptB64(Str(cipherText), securityKey)

\* lines 103-104: decryptB64, then JSON.parse of what it returned
DecryptAndParse(cipherText, securityKey) ==
  {IF d.kind = "throw" THEN d
   ELSE IF ParseJSON(d.value).ok THEN Return(ParseJSON(d.value).value)
   ELSE Throw("SyntaxError") :
     d \in decryptB64(Str(cipherText), securityKey)}

\* line 102: `secB64 || ...` goes to the key store
NeedsKeyStoreAlways(secB64) == TRUE

NeedsKeyStore(secB64) == ~ Truthy(secB64)

(***************************************************************************)
(* parseNumber.                                                            *)
(* Number.parseInt returns a double: an integer of up to 9 digits is       *)
(* [v |-> n]; a longer one is kept as its digits, or is an infinity when   *)
(* it rounds beyond the largest double; NaN is a value of its own.         *)
(***************************************************************************)
NaN == [t |-> "number", nan |-> TRUE]

Infinity(sign) == [t |-> "number", inf |-> sign]

Big(sign, digits) == [t |-> "number", big |-> digits, sign |-> sign]

IsNaN(x) == x.t = "number" /\ "nan" \in DOMAIN x

IsInfinite(x) == x.t = "number" /\ "inf" \in DOMAIN x

IsBig(x) == x.t = "number" /\ "big" \in DOMAIN x

\* x < m and x > m, for a parsed number x and an integer m of up to 9 digits
LessThan(x, m) ==
  IF IsInfinite(x) THEN x.inf < 0
  ELSE IF IsBig(x) THEN x.sign < 0
  ELSE x.v < m

GreaterThan(x, m) ==
  IF IsInfinite(x) THEN x.inf > 0
  ELSE IF IsBig(x) THEN x.sign > 0
  ELSE x.v > m

DigitChars == <<"0", "1", "2", "3", "4", "5", "6", "7", "8", "9">>

IsDigit(ch) == "c" \in DOMAIN ch /\ \E i \in 1..10 : DigitChars[i] = ch.c

DigitVal(ch) == (CHOOSE i \in 1..10 : DigitChars[i] = ch.c) - 1

Least(S) == CHOOSE x \in S : \A y \in S : x <= y

\* the value of a run of at most 9 digits
RECURSIVE DigitsValue(_)
DigitsValue(d) ==
  IF d = << >> THEN 0
  ELSE DigitsValue(SubSeq(d, 1, Len(d) - 1)) * 10 + DigitVal(d[Len(d)])

\* 2^1024 - 2^970: the least integer that rounds beyond the largest double
OverflowDigits ==
  <<
    1, 7, 9, 7, 6, 9, 3, 1, 3, 4, 8, 6, 2, 3, 1, 5, 8, 0, 7, 9, 3, 7, 2, 8, 9,
    7, 1, 4, 0, 5, 3, 0, 3, 4, 1, 5, 0, 7, 9, 9, 3, 4, 1, 3, 2, 7, 1, 0, 0, 3,
    7, 8, 2, 6, 9, 3, 6, 1, 7, 3, 7, 7, 8, 9, 8, 0, 4, 4, 4, 9, 6, 8, 2, 9, 2,
    7, 6, 4, 7, 5, 0, 9, 4, 6, 6, 4, 9, 0, 1, 7, 9, 7, 7, 5, 8, 7, 2, 0, 7, 0,
    9, 6, 3, 3, 0, 2, 8, 6, 4, 1, 6, 6, 9, 2, 8, 8, 7, 9, 1, 0, 9, 4, 6, 5, 5,
    5, 5, 4, 7, 8, 5, 1, 9, 4, 0, 4, 0, 2, 6, 3, 0, 6, 5, 7, 4, 8, 8, 6, 7, 1,
    5, 0, 5, 8, 2, 0, 6, 8, 1, 9, 0, 8, 9, 0, 2, 0, 0, 0, 7, 0, 8, 3, 8, 3, 6,
    7, 6, 2, 7, 3, 8, 5, 4, 8, 4, 5, 8, 1, 7, 7, 1, 1, 5, 3, 1, 7, 6, 4, 4, 7,
    5, 7, 3, 0, 2, 7, 0, 0, 6, 9, 8, 5, 5, 5, 7, 1, 3, 6, 6, 9, 5, 9, 6, 2, 2,
    8, 4, 2, 9, 1, 4, 8, 1, 9, 8, 6, 0, 8, 3, 4, 9, 3, 6, 4, 7, 5, 2, 9, 2, 7,
    1, 9, 0, 7, 4, 1, 6, 8, 4, 4, 4, 3, 6, 5, 5, 1, 0, 7, 0, 4, 3, 4, 2, 7, 1,
    1, 5, 5, 9, 6, 9, 9, 5, 0, 8, 0, 9, 3, 0, 4, 2, 8, 8, 0, 1, 7, 7, 9, 0, 4,
    1, 7, 4, 4, 9, 7, 7, 9, 2
  >>

\* the integer written by the digits d (no leading zero) is at least
\* 2^1024 - 2^970
Overflows(d) ==
  \/ Len(d) > Len(OverflowDigits)
  \/ /\ Len(d) = Len(OverflowDigits)
     /\ LET differ == {i \in 1..Len(d) : DigitVal(d[i]) # OverflowDigits[i]}
        IN differ = {}
           \/ DigitVal(d[Least(differ)]) > OverflowDigits[Least(differ)]

\* Number.parseInt(text, 10): leading white space, a sign, and the longest
\* run of digits; NaN when there is no digit
ParseIntText(text) ==
  LET t == TrimStart(text)
      signed == t # << >> /\ "c" \in DOMAIN t[1] /\ t[1].c \in {"-", "+"}
      sign == IF signed /\ t[1].c = "-" THEN -1 ELSE 1
      body == IF signed THEN Tail(t) ELSE t
      stops == {i \in 1..Len(body) : ~ IsDigit(body[i])}
      run == IF stops = {} THEN Len(body) ELSE Least(stops) - 1
      digits == SubSeq(body, 1, run)
      nonzero == {i \in 1..run : DigitVal(digits[i]) # 0}
      d == IF nonzero = {} THEN << >>
           ELSE SubSeq(digits, Least(nonzero), run)
  IN IF run = 0 THEN NaN
     ELSE IF Len(d) <= 9 THEN Num(sign * DigitsValue(d))
     ELSE IF Overflows(d) THEN Infinity(sign)
     ELSE Big(sign, d)

\* Number.parseInt(value, 10) on a JS value: the value is turned into a
\* string first ("undefined", "null" and "[object Object]" hold no digit)
ParseInt(value) ==
  IF value.t = "string" THEN ParseIntText(value.v)
  ELSE IF value.t = "number" THEN value
  ELSE NaN

\* the { min, max } argument; a missing bound is undefined
Options(min, max) == [min |-> min, max |-> max]

parseNumber(value, fallback, options) ==
  LET parsed == ParseInt(value)
  IN IF IsNaN(parsed) THEN fallback
     ELSE IF options.min.t = "number" /\ LessThan(parsed, options.min.v)
       THEN options.min
     ELSE IF options.max.t = "number" /\ GreaterThan(parsed, options.max.v)
       THEN options.max
     ELSE parsed

(***************************************************************************)
(* The key store: SECURITY_CACHE and fetchSecurityKey.                     *)
(***************************************************************************)
SECURITY_TTL_MS == 10 * 60 * 1000

EmptyCache == [value |-> Null, fetchedAt |-> 0]

\* a TTL written in seconds
CacheFreshSeconds(cache, now) ==
  Truthy(cache.value) /\ now - cache.fetchedAt < 10 * 60

\* a comparison that lets the boundary age through
CacheFreshInclusive(cache, now) ==
  Truthy(cache.value) /\ now - cache.fetchedAt <= SECURITY_TTL_MS

\* SECURITY_CACHE.value && now - SECURITY_CACHE.fetchedAt < SECURITY_TTL_MS
CacheFresh(cache, now) ==
  Truthy(cache.value) /\ now - cache.fetchedAt < SECURITY_TTL_MS

\* await response.json().catch(() => null)
KeyPayload(resp) ==
  LET j == ResponseJson(resp) IN IF j.ok THEN j.value ELSE Null

\* a check that forgets the internal status code
KeyPayloadValidNoCode(payload) ==
  ~ (~ Truthy(payload) \/ ~ Truthy(Prop(payload, "data")))

\* the negation of  !payload || payload.code !== 200 || !payload.data
KeyPayloadValid(payload) ==
  ~ (\/ ~ Truthy(payload)
     \/ Prop(payload, "code") # Num(200)
     \/ ~ Truthy(Prop(payload, "data")))

ThrowUnexpectedKeyResponse(payload) ==
  [kind |-> "throw", value |-> payload, error |-> "UnexpectedKeyResponse",
   status |-> 0, url |-> ""]

\* a write that leaves the old timestamp in place
CacheStoreValueOnly(cache, data, now) == [cache EXCEPT !.value = data]

\* SECURITY_CACHE.value = payload.data; SECURITY_CACHE.fetchedAt = now
CacheStore(cache, data, now) == [value |-> data, fetchedAt |-> now]

(***************************************************************************)
(* Bounds of the concurrent model, and the upstream key endpoint.          *)
(***************************************************************************)
\* concurrent requests (logical tasks) in the process
NumTasks == 2
\* clock resolution: Date.now() advances in steps of SECURITY_TTL_MS / TicksPerTTL
TicksPerTTL == 2
\* number of clock steps modelled
MaxTicks == 2

Tasks == 1..NumTasks

TickMs == SECURITY_TTL_MS \div TicksPerTTL

MaxClock == MaxTicks * TickMs

\* two security keys, which derive different cipher keys
K1 == <<Lex("a"), Lex("a")>>
K2 == <<Lex("b"), Lex("a")>>

KeyUrl == "/v0.1/system/getSecurityKey/1"

KeyResponse(status, body) ==
  NewResponse(status, "application/json", body, KeyUrl)

KeyBodyOf(code, data) == RenderObject(<< <<"code", code>>, <<"data", data>> >>)

\* the answers of the key endpoint that the concurrent model draws from:
\* one key, a rotated key, and an answer that is no key
CoreKeyResponses ==
  {KeyResponse(200, KeyBodyOf(Num(200), Str(K1))),
   KeyResponse(200, KeyBodyOf(Num(200), Str(K2))),
   KeyResponse(500, KeyBodyOf(Num(500), Null))}

\* every answer of the key endpoint within the bounds
AllKeyResponses ==
  {KeyResponse(st, b) : st \in Statuses, b \in ContentBodies}

(***************************************************************************)
(* State.                                                                  *)
(***************************************************************************)
VARIABLES
  SECURITY_CACHE, \* the process-wide cache: [value, fetchedAt]
  clock,          \* Date.now()
  task,           \* each logical task's position and locals
  response,       \* the response handed to extractCipherFromResponse
  extracted,      \* what extractCipherFromResponse settled with
  keyIssuedAt,    \* history: when the upstream answered with the cached key
  lastWrite,      \* history: the pair the last successful fetch wrote
  call,           \* a direct call of a function of the module: name, arguments
  returned        \* what that call settled with

vars ==
  <<SECURITY_CACHE, clock, task, response, extracted, keyIssuedAt, lastWrite,
    call, returned>>

NoOutcome == [kind |-> "none", value |-> << >>, error |-> "", status |-> 0,
              url |-> ""]

NoResponse == NewResponse(0, "", << >>, "")

NoCall == [fn |-> "none"]

\* no request received, no arguments passed to the core, no response sent
NoReq == [handler |-> "none"]

NoArgs == [op |-> "none"]

NoRes == [status |-> 0, json |-> Undefined, error |-> NoOutcome]

IdleTask ==
  [pc |-> "idle", op |-> "none", secB64 |-> Null, cipher |-> << >>,
   now |-> 0, resp |-> NoResponse, result |-> NoOutcome,
   contentReqs |-> 0, keyReqs |-> 0, usedKey |-> Undefined,
   issuedAt |-> 0, saw |-> "nothing",
   req |-> NoReq, args |-> NoArgs, res |-> NoRes]

\* pc values at which the task awaits the key endpoint
KeyInFlight == {"keyFetch", "keyBody"}

InitCore ==
  /\ SECURITY_CACHE = EmptyCache
  /\ clock = 0
  /\ task = [t \in Tasks |-> IdleTask]
  /\ keyIssuedAt = 0
  /\ lastWrite = EmptyCache
  /\ call = NoCall
  /\ returned = NoOutcome

(***************************************************************************)
(* fetchSecurityKey, one action per stretch between awaits.                *)
(***************************************************************************)
\* history: what a call starting at `now` finds in the cache
CacheSeen(cache, now) ==
  IF cache.value = Null THEN "empty"
  ELSE IF now - cache.fetchedAt >= 10 * 60 * 1000 THEN "expired"
  ELSE "fresh"

\* a variant that sends the key request again when it misses
StartKeyFetchResend(t, base) ==
  LET now == clock
      entered == [base EXCEPT !.now = now,
                              !.saw = CacheSeen(SECURITY_CACHE, now)]
  IN IF CacheFresh(SECURITY_CACHE, now)
     THEN [entered EXCEPT !.pc = "keyHit",
                          !.result = Return(SECURITY_CACHE.value)]
     ELSE [entered EXCEPT !.pc = "keyFetch", !.keyReqs = base.keyReqs + 2]

\* lines 86-91 as run by task t from entry `base`: read the clock, serve
\* from the cache or issue the upstream key request
StartKeyFetch(t, base) ==
  LET now == clock
      entered == [base EXCEPT !.now = now,
                              !.saw = CacheSeen(SECURITY_CACHE, now)]
  IN IF CacheFresh(SECURITY_CACHE, now)
     THEN [entered EXCEPT !.pc = "keyHit",
                          !.result = Return(SECURITY_CACHE.value)]
     ELSE [entered EXCEPT !.pc = "keyFetch", !.keyReqs = base.keyReqs + 1]

\* the call has settled with `outcome`; its frame (now, the ciphertext, the
\* response object) is gone, and what stays is what the caller and the
\* network saw
Settled(frame, outcome, resp) ==
  [frame EXCEPT !.pc = "done", !.result = outcome, !.resp = resp,
                !.now = 0, !.issuedAt = 0, !.cipher = << >>]

\* fetchSecurityKey has returned `key` to the frame: the key handler returns
\* it, and decryptPayload (lines 102-104) decrypts with it
AfterKey(frame, key, resp) ==
  IF frame.op = "fetchSecurityKey"
  THEN {Settled(frame, Return(key), resp)}
  ELSE {Settled([frame EXCEPT !.usedKey = key], o, resp) :
          o \in DecryptAndParse(frame.cipher, key)}

\* the key handler calls fetchSecurityKey()
CallGetKey(t) ==
  /\ task[t].pc = "idle"
  /\ LET started == StartKeyFetch(t, [IdleTask EXCEPT !.op = "fetchSecurityKey"])
     IN task' = [task EXCEPT ![t] =
                   IF started.pc = "keyHit"
                   THEN Settled(started, started.result, NoResponse)
                   ELSE started]
  /\ UNCHANGED <<SECURITY_CACHE, clock, response, extracted, keyIssuedAt,
                 lastWrite, call, returned>>

\* the instants of the clock from `from` to `to`
Instants(from, to) ==
  {from + k * TickMs : k \in 0..((to - from) \div TickMs)}

\* line 91: fetch resolves: the upstream has answered, having issued its key
\* at some instant since the request was sent
KeyFetchResolve(t) ==
  /\ task[t].pc = "keyFetch"
  /\ \E issued \in Instants(task[t].now, clock) :
       task' = [task EXCEPT ![t].pc = "keyBody", ![t].issuedAt = issued]
  /\ UNCHANGED <<SECURITY_CACHE, clock, response, extracted, keyIssuedAt,
                 lastWrite, call, returned>>

\* line 91: fetch rejects (network failure); the rejection propagates
KeyFetchReject(t) ==
  /\ task[t].pc = "keyFetch"
  /\ task' = [task EXCEPT ![t] = Settled(task[t], Throw("FetchFailed"),
                                          NoResponse)]
  /\ UNCHANGED <<SECURITY_CACHE, clock, response, extracted, keyIssuedAt,
                 lastWrite, call, returned>>

\* lines 92-98: the body of the answer r is read and checked, and the cache
\* written
KeyBody(t, answers) ==
  /\ task[t].pc = "keyBody"
  /\ \E r \in answers :
       LET payload == KeyPayload(r)
           data == Prop(payload, "data")
       IN IF KeyPayloadValid(payload)
          THEN /\ SECURITY_CACHE' =
                    CacheStore(SECURITY_CACHE, data, task[t].now)
               /\ keyIssuedAt' = task[t].issuedAt
               /\ lastWrite' = [value |-> data, fetchedAt |-> task[t].now]
               /\ \E settled \in AfterKey(task[t], data, Consumed(r)) :
                    task' = [task EXCEPT ![t] = settled]
          ELSE /\ task' = [task EXCEPT ![t] =
                            Settled(task[t],
                                    ThrowUnexpectedKeyResponse(payload),
                                    Consumed(r))]
               /\ UNCHANGED <<SECURITY_CACHE, keyIssuedAt, lastWrite>>
  /\ UNCHANGED <<clock, response, extracted, call, returned>>

\* the handler has sent its response; the task's locals are dropped
Finish(t) ==
  /\ task[t].pc = "done"
  /\ task' = [task EXCEPT ![t] = IdleTask]
  /\ UNCHANGED <<SECURITY_CACHE, clock, response, extracted, keyIssuedAt,
                 lastWrite, call, returned>>

\* time passes
Tick ==
  /\ clock + TickMs <= MaxClock
  /\ clock' = clock + TickMs
  /\ UNCHANGED <<SECURITY_CACHE, task, response, extracted, keyIssuedAt,
                 lastWrite, call, returned>>

Init ==
  /\ InitCore
  /\ response = NoResponse
  /\ extracted = NoOutcome

Next ==
  \/ \E t \in Tasks : CallGetKey(t)
  \/ \E t \in Tasks : KeyFetchResolve(t)
  \/ \E t \in Tasks : KeyFetchReject(t)
  \/ \E t \in Tasks : KeyBody(t, CoreKeyResponses)
  \/ \E t \in Tasks : Finish(t)
  \/ Tick

Spec == Init /\ [][Next]_vars

(***************************************************************************)
(* The dispatcher: fetchHome, fetchSearch, fetchDetails, fetchVideo2 and   *)
(* fetchVideoV1 issue the content request, extract the ciphertext, and     *)
(* decrypt it with the caller's key or the key store's.                    *)
(***************************************************************************)
DispatchOps ==
  {"fetchHome", "fetchSearch", "fetchDetails", "fetchVideo2", "fetchVideoV1"}

OpUrl(op) ==
  CASE op = "fetchHome" -> "/film-api/v0.1/category/home"
    [] op = "fetchSearch" -> "/film-api/v1.1.0/movie/searchByKeyword"
    [] op = "fetchDetails" -> "/film-api/v1.1/movie"
    [] op = "fetchVideo2" -> "/film-api/v2.0.1/movie/getVideo2"
    [] op = "fetchVideoV1" -> "/film-api/v1.9.1/movie/getVideo"

\* the secB64 argument: absent (null), empty, or a key the caller holds
SecArgs == {Null, Str(<< >>), Str(K1), Str(K2)}

\* the plaintexts the upstream encrypts: a JSON value, and text that is none
PlainJson == RenderObject(<< <<"code", Num(200)>> >>)

PlainText == <<Lex("a")>>

EnvelopeOf(cipher) == RenderObject(<< <<"data", Str(cipher)>> >>)

\* the bodies of the content endpoints that the dispatcher model draws from
CoreContentBodies ==
  {EnvelopeOf(<<Lex(" "), Enc(deriveKeyFromSec(K1), PlainJson)>>),
   EnvelopeOf(<<Enc(deriveKeyFromSec(K2), PlainJson)>>),
   EnvelopeOf(<<Enc(deriveKeyFromSec(K1), PlainText)>>),
   <<Enc(deriveKeyFromSec(K1), PlainJson)>>,
   RenderObject(<< >>)}

CoreContentResponses(url) ==
  {NewResponse(200, ct, b, url) :
     ct \in {"application/json", "text/plain"}, b \in CoreContentBodies}
    \cup {NewResponse(204, "", << >>, url)}

\* lines 107-109: the caller enters the operation, which issues the content
\* request
CallDispatch(t) ==
  /\ task[t].pc = "idle"
  /\ \E op \in DispatchOps, sec \in SecArgs :
       task' = [task EXCEPT ![t] =
                  [IdleTask EXCEPT !.pc = "contentFetch", !.op = op,
                                   !.secB64 = sec, !.contentReqs = 1]]
  /\ UNCHANGED <<SECURITY_CACHE, clock, response, extracted, keyIssuedAt,
                 lastWrite, call, returned>>

\* line 109: fetch resolves
ContentFetchResolve(t) ==
  /\ task[t].pc = "contentFetch"
  /\ task' = [task EXCEPT ![t].pc = "contentBody"]
  /\ UNCHANGED <<SECURITY_CACHE, clock, response, extracted, keyIssuedAt,
                 lastWrite, call, returned>>

\* line 109: fetch rejects (network failure)
ContentFetchReject(t) ==
  /\ task[t].pc = "contentFetch"
  /\ task' = [task EXCEPT ![t] = Settled(task[t], Throw("FetchFailed"),
                                          NoResponse)]
  /\ UNCHANGED <<SECURITY_CACHE, clock, response, extracted, keyIssuedAt,
                 lastWrite, call, returned>>

\* lines 110-111 and 101-104: the ciphertext is extracted from the answer r,
\* and decryptPayload decrypts it with secB64, or enters fetchSecurityKey
ContentBody(t) ==
  /\ task[t].pc = "contentBody"
  /\ \E r \in CoreContentResponses(OpUrl(task[t].op)) :
       LET cipher == extractCipherFromResponse(r)
           read == ResponseAfterExtract(r)
           frame == [task[t] EXCEPT !.cipher = cipher.value]
       IN IF cipher.kind = "throw"
          THEN task' = [task EXCEPT ![t] = Settled(task[t], cipher, read)]
          ELSE IF ~ NeedsKeyStore(task[t].secB64)
          THEN \E o \in DecryptAndParse(cipher.value, task[t].secB64) :
                 task' = [task EXCEPT ![t] =
                    Settled([frame EXCEPT !.usedKey = task[t].secB64], o, read)]
          ELSE LET started == StartKeyFetch(t, frame)
               IN IF started.pc = "keyHit"
                  THEN \E settled \in
                         AfterKey(started, started.result.value, read) :
                         task' = [task EXCEPT ![t] = settled]
                  ELSE task' = [task EXCEPT ![t] = started]
  /\ UNCHANGED <<SECURITY_CACHE, clock, response, extracted, keyIssuedAt,
                 lastWrite, call, returned>>

\* task 1 runs dispatcher operations while the other tasks fetch the key, at
\* one instant of the clock
NextDispatch ==
  \/ CallDispatch(1)
  \/ ContentFetchResolve(1)
  \/ ContentFetchReject(1)
  \/ ContentBody(1)
  \/ \E t \in Tasks \ {1} : CallGetKey(t)
  \/ \E t \in Tasks : KeyFetchResolve(t)
  \/ \E t \in Tasks : KeyFetchReject(t)
  \/ \E t \in Tasks : KeyBody(t, CoreKeyResponses)
  \/ \E t \in Tasks : Finish(t)

SpecDispatch == Init /\ [][NextDispatch]_vars

(***************************************************************************)
(* The request handlers: home, search, details, the two video handlers and *)
(* the key handler.  A request is [handler, method, query, body]; the      *)
(* response sent is [status, json, error].                                 *)
(***************************************************************************)
Handlers == {"home", "search", "details", "videoV1", "video2", "key"}

Methods == {"GET", "POST"}

\* the method each handler accepts
HandlerMethod(h) == IF h \in {"videoV1", "video2"} THEN "POST" ELSE "GET"

\* the core function each handler calls
HandlerOp(h) ==
  CASE h = "home" -> "fetchHome"
    [] h = "search" -> "fetchSearch"
    [] h = "details" -> "fetchDetails"
    [] h = "videoV1" -> "fetchVideoV1"
    [] h = "video2" -> "fetchVideo2"
    [] h = "key" -> "fetchSecurityKey"

\* the fallbacks and bounds of page and size (home and search handlers)
PageOptions == Options(Num(1), Undefined)

SizeOptions == Options(Num(1), Num(50))

PageFallback == Num(1)

HomeSizeFallback == Num(17)

SearchSizeFallback == Num(30)

\* a || b and a ?? b
JsOr(a, b) == IF Truthy(a) THEN a ELSE b

Nullish(a, b) == IF a.t \in {"undefined", "null"} THEN b ELSE a

\* res.status(n).json({ error: message })
ReplyError(status, message) ==
  [status |-> status, json |-> Undefined, error |-> Throw(message)]

\* a variant that checks the method only
ValidateMethodOnly(req) ==
  IF req.method # HandlerMethod(req.handler)
  THEN ReplyError(405, "Method Not Allowed")
  ELSE NoRes

\* the method and parameter checks of a handler: the response they send, or
\* NoRes when the request passes
Validate(req) ==
  LET h == req.handler
      q == req.query
      b == JsOr(req.body, Obj(EmptyFields))
  IN IF req.method # HandlerMethod(h)
     THEN ReplyError(405, "Method Not Allowed")
     ELSE IF h = "search" /\ ~ Truthy(Prop(q, "keyword"))
       THEN ReplyError(400, "keyword is required")
     ELSE IF h = "details" /\ ~ Truthy(Prop(q, "movie_id"))
       THEN ReplyError(400, "movie_id is required")
     ELSE IF h = "videoV1" /\ (\/ ~ Truthy(Prop(b, "movie_id"))
                               \/ ~ Truthy(Prop(b, "episode_id"))
                               \/ ~ Truthy(Prop(b, "language_id")))
       THEN ReplyError(400,
                       "movie_id, episode_id, and language_id are required")
     ELSE IF h = "video2" /\ (\/ ~ Truthy(Prop(b, "movie_id"))
                              \/ ~ Truthy(Prop(b, "episode_id")))
       THEN ReplyError(400, "movie_id and episode_id are required")
     ELSE NoRes

\* the arguments, after secB64, that the handler passes to the core
CoreArgs(req) ==
  LET h == req.handler
      q == req.query
      b == JsOr(req.body, Obj(EmptyFields))
  IN CASE h = "home" ->
            [op |-> "fetchHome",
             page |-> parseNumber(Prop(q, "page"), PageFallback, PageOptions),
             size |-> parseNumber(Prop(q, "size"), HomeSizeFallback,
                                  SizeOptions)]
       [] h = "search" ->
            [op |-> "fetchSearch",
             keyword |-> Prop(q, "keyword"),
             page |-> parseNumber(Prop(q, "page"), PageFallback, PageOptions),
             size |-> parseNumber(Prop(q, "size"), SearchSizeFallback,
                                  SizeOptions)]
       [] h = "details" ->
            [op |-> "fetchDetails", movieId |-> Prop(q, "movie_id")]
       [] h = "videoV1" ->
            [op |-> "fetchVideoV1",
             movieId |-> Prop(b, "movie_id"),
             episodeId |-> Prop(b, "episode_id"),
             languageId |-> Prop(b, "language_id"),
             resolution |-> Nullish(Prop(b, "resolution"), Num(2))]
       [] h = "video2" ->
            [op |-> "fetchVideo2",
             movieId |-> Prop(b, "movie_id"),
             episodeId |-> Prop(b, "episode_id"),
             resolution |-> Nullish(Prop(b, "resolution"), Num(2))]
       [] h = "key" -> [op |-> "fetchSecurityKey"]

\* a variant with no catch: a failure of the core leaves the handler
HandlerOutcomeNoCatch(h, result) ==
  IF result.kind = "return"
  THEN [status |-> 200, json |-> result.value, error |-> NoOutcome]
  ELSE NoRes

\* the try / catch of a handler: what it sends for the outcome of the core
HandlerOutcome(h, result) ==
  IF result.kind = "return"
  THEN [status |-> 200,
        json |-> IF h = "key" THEN Obj([securityKey |-> result.value])
                 ELSE result.value,
        error |-> NoOutcome]
  ELSE [status |-> 502, json |-> Undefined, error |-> result]

\* the values of a query parameter and of a member of a JSON request body
QueryValues == {Undefined, Str(<< >>), Str(<<Lex("a")>>)}

BodyValues == {Undefined, Num(0), Str(<<Lex("a")>>)}

NoQuery ==
  [keyword |-> Undefined, movie_id |-> Undefined, page |-> Undefined,
   size |-> Undefined, sec_b64 |-> Undefined]

Request(h, method, query, body) ==
  [handler |-> h, method |-> method, query |-> Obj(query), body |-> body]

RequestBodies ==
  {Undefined}
    \cup {Obj([movie_id |-> m, episode_id |-> e, language_id |-> l,
               resolution |-> r]) :
            m \in BodyValues, e \in BodyValues, l \in BodyValues,
            r \in {Undefined, Num(1)}}

\* the requests the handlers receive
Requests ==
  {Request("home", m, [NoQuery EXCEPT !.page = p, !.size = z,
                                       !.sec_b64 = k], Undefined) :
     m \in Methods, p \in {Undefined, Str(<<Lex("9")>>)},
     z \in {Undefined, Str(<<Lex("9"), Lex("9")>>)},
     k \in {Undefined, Str(<< >>), Str(K1)}}
  \cup
  {Request("search", m, [NoQuery EXCEPT !.keyword = w, !.page = p,
                                         !.sec_b64 = k], Undefined) :
     m \in Methods, w \in QueryValues,
     p \in {Undefined, Str(<<Lex("-"), Lex("1")>>)},
     k \in {Undefined, Str(K2)}}
  \cup
  {Request("details", m, [NoQuery EXCEPT !.movie_id = i, !.sec_b64 = k],
           Undefined) :
     m \in Methods, i \in QueryValues, k \in {Undefined, Str(K1)}}
  \cup
  {Request(h, m, [NoQuery EXCEPT !.sec_b64 = k], b) :
     h \in {"videoV1", "video2"}, m \in Methods, b \in RequestBodies,
     k \in {Undefined, Str(K1)}}
  \cup
  {Request("key", m, NoQuery, Undefined) : m \in Methods}

\* a request arrives: the handler answers it at once when it fails the
\* checks, and calls the core otherwise
HandleRequest(t) ==
  /\ task[t].pc = "idle"
  /\ \E req \in Requests :
       LET base == [IdleTask EXCEPT !.req = req]
           check == Validate(req)
           called == [base EXCEPT !.op = HandlerOp(req.handler),
                                  !.args = CoreArgs(req)]
       IN IF check # NoRes
          THEN task' = [task EXCEPT ![t] =
                          [base EXCEPT !.pc = "responded", !.res = check]]
          ELSE IF req.handler = "key"
          THEN LET started == StartKeyFetch(t, called)
               IN task' = [task EXCEPT ![t] =
                             IF started.pc = "keyHit"
                             THEN Settled(started, started.result, NoResponse)
                             ELSE started]
          ELSE task' = [task EXCEPT ![t] =
                    [called EXCEPT
                       !.pc = "contentFetch",
                       !.secB64 = JsOr(Prop(req.query, "sec_b64"), Null),
                       !.contentReqs = 1]]
  /\ UNCHANGED <<SECURITY_CACHE, clock, response, extracted, keyIssuedAt,
                 lastWrite, call, returned>>

\* the core call has settled: the handler sends its response
Respond(t) ==
  /\ task[t].pc = "done"
  /\ task' = [task EXCEPT ![t].pc = "responded",
                          ![t].res = HandlerOutcome(task[t].req.handler,
                                                    task[t].result)]
  /\ UNCHANGED <<SECURITY_CACHE, clock, response, extracted, keyIssuedAt,
                 lastWrite, call, returned>>

\* the handler has returned
EndRequest(t) ==
  /\ task[t].pc = "responded"
  /\ task' = [task EXCEPT ![t] = IdleTask]
  /\ UNCHANGED <<SECURITY_CACHE, clock, response, extracted, keyIssuedAt,
                 lastWrite, call, returned>>

\* one task serves requests one after the other
NextHandler ==
  \/ HandleRequest(1)
  \/ ContentFetchResolve(1)
  \/ ContentFetchReject(1)
  \/ ContentBody(1)
  \/ KeyFetchResolve(1)
  \/ KeyFetchReject(1)
  \/ KeyBody(1, CoreKeyResponses)
  \/ Respond(1)
  \/ EndRequest(1)

SpecHandler == Init /\ [][NextHandler]_vars

\* one task runs dispatcher operations and key fetches one after the other,
\* while time passes
NextSerial ==
  \/ CallDispatch(1)
  \/ ContentFetchResolve(1)
  \/ ContentFetchReject(1)
  \/ ContentBody(1)
  \/ CallGetKey(1)
  \/ KeyFetchResolve(1)
  \/ KeyFetchReject(1)
  \/ KeyBody(1, CoreKeyResponses)
  \/ Finish(1)
  \/ Tick

SpecSerial == Init /\ [][NextSerial]_vars

(***************************************************************************)
(* One call of fetchSecurityKey on a cold cache, against every answer of   *)
(* the key endpoint within the bounds.                                     *)
(***************************************************************************)
NextKey ==
  \/ CallGetKey(1)
  \/ KeyFetchResolve(1)
  \/ KeyFetchReject(1)
  \/ KeyBody(1, AllKeyResponses)

SpecKey == Init /\ [][NextKey]_vars

(***************************************************************************)
(* Extraction of one response.                                             *)
(***************************************************************************)
InitExtract ==
  /\ InitCore
  /\ response \in ContentResponses
  /\ extracted = NoOutcome

Extract ==
  /\ extracted = NoOutcome
  /\ extracted' = extractCipherFromResponse(response)
  /\ response' = ResponseAfterExtract(response)
  /\ UNCHANGED <<SECURITY_CACHE, clock, task, keyIssuedAt, lastWrite, call,
                 returned>>

NextExtract == Extract

SpecExtract == InitExtract /\ [][NextExtract]_vars

(***************************************************************************)
(* Direct calls of the functions of the module, one call per behaviour.    *)
(***************************************************************************)
\* longest security key text, in characters
MaxKeyChars == 16

\* the text of length n that repeats the pattern p
Cycle(p, n) == [i \in 1..n |-> p[((i - 1) % Len(p)) + 1]]

\* security key texts of every length up to MaxKeyChars
KeyTexts ==
  {Cycle(p, n) : p \in StringsUpTo(MaxStrLen) \ {<< >>}, n \in 0..MaxKeyChars}

DeriveCalls == {[fn |-> "deriveKeyFromSec", secB64 |-> s] : s \in KeyTexts}

\* ciphertext arguments: absent, empty, no string, blank, no ciphertext, and
\* ciphertexts under the two keys
CipherArgs ==
  {Undefined, Null, Str(<< >>), Num(0), Num(1), Str(<<Lex(" ")>>),
   Str(<<Lex("a")>>), Str(<<Enc(deriveKeyFromSec(K1), PlainJson)>>),
   Str(<<Enc(deriveKeyFromSec(K2), PlainText)>>)}

KeyArgs == {Undefined, Null, Num(0), Str(<< >>), Str(K1), Str(K2)}

DecryptCalls ==
  {[fn |-> "decryptB64", cipherB64 |-> c, secB64 |-> k] :
     c \in CipherArgs, k \in KeyArgs}

CallDeriveKeyFromSec ==
  /\ call.fn = "deriveKeyFromSec"
  /\ returned = NoOutcome
  /\ returned' = Return(deriveKeyFromSec(call.secB64))
  /\ UNCHANGED <<SECURITY_CACHE, clock, task, response, extracted,
                 keyIssuedAt, lastWrite, call>>

CallDecryptB64 ==
  /\ call.fn = "decryptB64"
  /\ returned = NoOutcome
  /\ returned' \in decryptB64(call.cipherB64, call.secB64)
  /\ UNCHANGED <<SECURITY_CACHE, clock, task, response, extracted,
                 keyIssuedAt, lastWrite, call>>

\* longest text of a number, and longest run of digits
MaxNumLen == 2

MaxDigits == 310

NumChars ==
  {Lex(" "), Lex("-"), Lex("+"), Lex("."), Lex("a"), Lex("0"), Lex("1"),
   Lex("5"), Lex("9")}

\* what a page or size query parameter can be: absent, short texts of every
\* kind, and runs of one digit of every length up to MaxDigits
NumberArgs ==
  {Undefined}
    \cup {Str(x) : x \in UNION {[1..k -> NumChars] : k \in 0..MaxNumLen}}
    \cup {Str(Cycle(<<Lex(d)>>, n)) : d \in {"1", "2", "9"},
                                      n \in (MaxNumLen + 1)..MaxDigits}

\* the calls the handlers make, and a call with no bound
ParseNumberCalls ==
  {[fn |-> "parseNumber", value |-> v, fallback |-> c[1], options |-> c[2]] :
     v \in NumberArgs,
     c \in {<<PageFallback, PageOptions>>, <<HomeSizeFallback, SizeOptions>>,
            <<SearchSizeFallback, SizeOptions>>,
            <<PageFallback, Options(Undefined, Undefined)>>}}

CallParseNumber ==
  /\ call.fn = "parseNumber"
  /\ returned = NoOutcome
  /\ returned' = Return(parseNumber(call.value, call.fallback, call.options))
  /\ UNCHANGED <<SECURITY_CACHE, clock, task, response, extracted,
                 keyIssuedAt, lastWrite, call>>

PureCalls == DeriveCalls \cup DecryptCalls \cup ParseNumberCalls

InitPure ==
  /\ SECURITY_CACHE = EmptyCache
  /\ clock = 0
  /\ task = [t \in Tasks |-> IdleTask]
  /\ keyIssuedAt = 0
  /\ lastWrite = EmptyCache
  /\ response = NoResponse
  /\ extracted = NoOutcome
  /\ call \in PureCalls
  /\ returned = NoOutcome

NextPure ==
  \/ CallDeriveKeyFromSec
  \/ CallDecryptB64
  \/ CallParseNumber

SpecPure == InitPure /\ [][NextPure]_vars

(***************************************************************************)
(* Properties of extractCipherFromResponse (SpecExtract).                  *)
(***************************************************************************)
ExtractDone == extracted.kind # "none"

\* s holds a character that is not whitespace
NonBlank(s) == \E i \in 1..Len(s) : ~ IsWs(s[i])

\* t is s without its leading and trailing whitespace
IsTrimOf(t, s) ==
  \E i \in 0..Len(s) : \E j \in i..Len(s) :
    /\ t = SubSeq(s, i + 1, j)
    /\ \A k \in 1..i : IsWs(s[k])
    /\ \A k \in (j + 1)..Len(s) : IsWs(s[k])
    /\ (t # << >> => ~ IsWs(t[1]) /\ ~ IsWs(t[Len(t)]))

\* the raw text the upstream sent with the response
SentText(r) == IF r.status \in NullBodyStatus THEN << >> ELSE r.body

\* the body is a JSON object with a string `data` member that is not blank
BodyHasJsonCipher(r) ==
  LET parsed == ParseJSON(SentText(r))
  IN /\ parsed.ok
     /\ parsed.value.t = "object"
     /\ "data" \in DOMAIN parsed.value.v
     /\ parsed.value.v["data"].t = "string"
     /\ NonBlank(parsed.value.v["data"].v)

DeclaredJson(r) ==
  r.contentType \in {"application/json", "application/json; charset=utf-8"}

\* C8: whenever no JSON-derived ciphertext is obtained (the body is not JSON,
\* or is JSON without a non-blank string data member), extract returns the
\* trimmed raw text when it is non-empty and otherwise fails with the
\* empty-response error carrying the HTTP status and the URL.  (A malformed
\* body under a declared JSON content type is C9's case and is left out.)
C8_TextFallback ==
  (/\ ExtractDone
   /\ ~ BodyHasJsonCipher(response)
   /\ ~ (DeclaredJson(response) /\ ~ ParseJSON(SentText(response)).ok))
  => IF NonBlank(SentText(response))
     THEN /\ extracted.kind = "return"
          /\ IsTrimOf(extracted.value, SentText(response))
     ELSE /\ extracted.kind = "throw"
          /\ extracted.error = "EmptyResponse"
          /\ extracted.status = response.status
          /\ extracted.url = response.url

\* C9 as claimed: extract never propagates a JSON parse failure, whatever the
\* declared content type.
C9_NeverPropagatesParseError ==
  ExtractDone => ~ (extracted.kind = "throw" /\ extracted.error = "SyntaxError")

\* C9 as amended: the JSON parse failure is swallowed exactly when the declared
\* content type does not contain application/json; under a declared JSON
\* content type a body that does not parse makes extract fail with the parse
\* error.
C9_ParseErrorIffDeclaredJson ==
  ExtractDone =>
    ((extracted.kind = "throw" /\ extracted.error = "SyntaxError")
       <=> (DeclaredJson(response) /\ ~ ParseJSON(SentText(response)).ok))

C9_Witness ==
  /\ ExtractDone
  /\ ~ DeclaredJson(response)
  /\ response.status = 200
  /\ ~ ParseJSON(SentText(response)).ok
  /\ extracted.error # "SyntaxError"

\* C10: a body that parses as a JSON object with a string data member whose
\* trimmed form is non-empty yields exactly that trimmed string, for every
\* declared content type; the raw text is not what is returned.
C10_JsonDataPrecedence ==
  (ExtractDone /\ BodyHasJsonCipher(response)) =>
    /\ extracted.kind = "return"
    /\ IsTrimOf(extracted.value,
                ParseJSON(SentText(response)).value.v["data"].v)
    /\ ~ IsTrimOf(extracted.value, SentText(response))

C10_Witness ==
  /\ ExtractDone
  /\ BodyHasJsonCipher(response)
  /\ ~ DeclaredJson(response)
  /\ IsWs(ParseJSON(SentText(response)).value.v["data"].v[1])
  /\ IsWs(SentText(response)[1])
  /\ extracted.kind = "return"
  /\ extracted.value = <<Lex("a")>>

(***************************************************************************)
(* Properties of the key store (Spec, SpecKey).                            *)
(***************************************************************************)
TTL == 10 * 60 * 1000

\* task t enters fetchSecurityKey in this step
Starts(t) == task[t].pc = "idle" /\ task'[t].pc # "idle"

\* task t issues its upstream key request in this step
IssuesKeyRequest(t) == task[t].pc = "idle" /\ task'[t].pc = "keyFetch"

\* the key a response of the key endpoint carries
FetchedKey(r) == ParseJSON(SentText(r)).value.v["data"]

\* a `data` member that is present and not empty
NonEmptyData(d) ==
  \/ d.t = "string" /\ Len(d.v) > 0
  \/ d.t = "number" /\ d.v # 0

\* the body is JSON with code 200 and a present, non-empty data member
GoodKeyBody(r) ==
  LET parsed == ParseJSON(SentText(r))
  IN /\ parsed.ok
     /\ parsed.value.t = "object"
     /\ {"code", "data"} \subseteq DOMAIN parsed.value.v
     /\ parsed.value.v["code"] = [t |-> "number", v |-> 200]
     /\ NonEmptyData(parsed.value.v["data"])

\* C1: a call made while the cache holds a key younger than the TTL returns
\* exactly the cached value at once, issues no upstream key request and
\* leaves value and fetchedAt as they were.
C1_CacheHit ==
  [][\A t \in Tasks :
       (/\ Starts(t)
        /\ SECURITY_CACHE.value # Null
        /\ clock - SECURITY_CACHE.fetchedAt < TTL)
       => /\ task'[t].pc = "done"
          /\ task'[t].result.kind = "return"
          /\ task'[t].result.value = SECURITY_CACHE.value
          /\ task'[t].keyReqs = 0
          /\ SECURITY_CACHE' = SECURITY_CACHE]_vars

C1_Witness ==
  \E t \in Tasks :
    /\ task[t].pc = "done"
    /\ task[t].saw = "fresh"
    /\ task[t].result.kind = "return"
    /\ task[t].keyReqs = 0
    /\ clock > SECURITY_CACHE.fetchedAt

\* C2 as claimed: of two calls less than a TTL apart at most one issues an
\* upstream key request, whether the earlier call has completed (its entry is
\* the latest written) or is still awaiting the upstream.
C2_AtMostOneRequestEveryInterleaving ==
  [][\A b \in Tasks :
       IssuesKeyRequest(b)
       => /\ lastWrite.value = Null \/ clock - lastWrite.fetchedAt >= TTL
          /\ \A a \in Tasks \ {b} :
               task[a].pc \in KeyInFlight => clock - task[a].now >= TTL]_vars

\* C2 as amended: a call issues no upstream key request when the latest fetch
\* to have completed successfully began less than a TTL before it; a call that
\* starts while another is still awaiting the upstream is not covered.
C2_AtMostOneRequestSequential ==
  [][\A b \in Tasks :
       IssuesKeyRequest(b)
       => (lastWrite.value = Null \/ clock - lastWrite.fetchedAt >= TTL)]_vars

C2_Witness ==
  \E a \in Tasks : \E b \in Tasks \ {a} :
    /\ task[a].pc = "done" /\ task[a].keyReqs = 1
    /\ task[a].result.kind = "return"
    /\ task[b].pc = "done" /\ task[b].keyReqs = 0
    /\ task[b].saw = "fresh"
    /\ task[b].result = task[a].result
    /\ clock > lastWrite.fetchedAt

\* C3: a call made when the cache is empty or the cached key is a TTL old or
\* older issues exactly one upstream key request; when the upstream answers
\* with a key, the cache takes that key with the call's timestamp and the
\* call returns that key.
C3_MissFetchesOnce ==
  [][\A t \in Tasks :
       /\ (Starts(t) /\ (SECURITY_CACHE.value = Null
                          \/ clock - SECURITY_CACHE.fetchedAt >= TTL))
          => /\ task'[t].pc = "keyFetch"
             /\ task'[t].keyReqs = 1
             /\ task'[t].now = clock
             /\ SECURITY_CACHE' = SECURITY_CACHE
       /\ task[t].pc \in KeyInFlight
          => task[t].keyReqs = 1 /\ task'[t].keyReqs = 1
       /\ (/\ task[t].pc = "keyBody"
           /\ task'[t].pc = "done"
           /\ GoodKeyBody(task'[t].resp))
          => /\ SECURITY_CACHE'.value = FetchedKey(task'[t].resp)
             /\ SECURITY_CACHE'.fetchedAt = task[t].now
             /\ task'[t].result.kind = "return"
             /\ task'[t].result.value = FetchedKey(task'[t].resp)]_vars

C3_Witness ==
  \E t \in Tasks :
    /\ task[t].pc = "done"
    /\ task[t].saw = "expired"
    /\ task[t].keyReqs = 1
    /\ task[t].result.kind = "return"
    /\ SECURITY_CACHE.value = task[t].result.value
    /\ SECURITY_CACHE.fetchedAt >= TTL

\* C4: the cache is one (value, fetchedAt) record, and a call is served from
\* it without a fetch only while less than the TTL has passed since the
\* upstream answered with that key.
C4_Freshness ==
  [][/\ DOMAIN SECURITY_CACHE' = {"value", "fetchedAt"}
     /\ SECURITY_CACHE'.value.t \in {"null", "string"}
     /\ \A t \in Tasks :
          (/\ Starts(t)
           /\ task'[t].pc = "done"
           /\ task'[t].result.kind = "return")
          => /\ task'[t].keyReqs = 0
             /\ task'[t].result.value = SECURITY_CACHE.value
             /\ clock - keyIssuedAt < TTL
             /\ clock - keyIssuedAt >= 0]_vars

C4_Witness ==
  \E t \in Tasks :
    /\ task[t].pc = "done"
    /\ task[t].saw = "fresh"
    /\ task[t].keyReqs = 0
    /\ task[t].result.kind = "return"
    /\ task[t].result.value = SECURITY_CACHE.value
    /\ SECURITY_CACHE.fetchedAt < keyIssuedAt
    /\ keyIssuedAt < clock

\* the answer is an HTTP-level success
HttpSuccess(r) == r.status >= 200 /\ r.status <= 299

\* task t has read the key endpoint's answer
ReadKeyAnswer(t) == task[t].pc = "done" /\ task[t].resp.url = KeyUrl

\* the failure carries the payload of the answer (null when it has none)
CarriesPayload(t) ==
  /\ task[t].result.kind = "throw"
  /\ task[t].result.error = "UnexpectedKeyResponse"
  /\ task[t].result.value =
       (IF ParseJSON(SentText(task[t].resp)).ok
        THEN ParseJSON(SentText(task[t].resp)).value
        ELSE [t |-> "null"])

\* C5 as claimed: on a miss the call succeeds only if the answer is an HTTP
\* success and its body has code 200 and a present data member; every other
\* answer fails with the error that carries the payload.
C5_SuccessNeedsHttpSuccess ==
  \A t \in Tasks :
    ReadKeyAnswer(t) =>
      IF HttpSuccess(task[t].resp) /\ GoodKeyBody(task[t].resp)
      THEN /\ task[t].result.kind = "return"
           /\ task[t].result.value = FetchedKey(task[t].resp)
      ELSE CarriesPayload(t)

\* C5 as amended: on a miss the call succeeds exactly when the body of the
\* answer is JSON with code 200 and a present, non-empty data member, whatever
\* the HTTP status; every other body fails with the error that carries the
\* parsed payload (null for a body that is not JSON).
C5_SuccessIffGoodBody ==
  \A t \in Tasks :
    ReadKeyAnswer(t) =>
      IF GoodKeyBody(task[t].resp)
      THEN /\ task[t].result.kind = "return"
           /\ task[t].result.value = FetchedKey(task[t].resp)
      ELSE CarriesPayload(t)

C5_Witness ==
  \E t \in Tasks :
    /\ ReadKeyAnswer(t)
    /\ task[t].resp.status = 500
    /\ GoodKeyBody(task[t].resp)
    /\ task[t].result.kind = "return"
    /\ SECURITY_CACHE.value = FetchedKey(task[t].resp)

\* C6: in every state the cached value and timestamp are the pair one
\* successful fetch wrote, and that fetch is the one that wrote last.
C6_AtomicLastWriterWins ==
  /\ SECURITY_CACHE.value = lastWrite.value
  /\ SECURITY_CACHE.fetchedAt = lastWrite.fetchedAt

C6_Witness ==
  \E a \in Tasks : \E b \in Tasks \ {a} :
    /\ task[a].pc = "done" /\ task[b].pc = "done"
    /\ task[a].saw = "empty" /\ task[b].saw = "empty"
    /\ task[a].result.kind = "return" /\ task[b].result.kind = "return"
    /\ task[a].result.value # task[b].result.value
    /\ SECURITY_CACHE.value = task[b].result.value
    /\ SECURITY_CACHE.fetchedAt < clock
    /\ SECURITY_CACHE = lastWrite

(***************************************************************************)
(* The dispatcher and the key store.                                       *)
(***************************************************************************)
\* the caller handed the operation a key: a string that is not empty
SuppliedKey(sec) == sec.t = "string" /\ Len(sec.v) > 0

\* the value the upstream encrypted as PlainJson
PlainValue == Obj([f \in {"code"} |-> Num(200)])

\* C7: a dispatcher operation invoked with a caller-supplied key never
\* consults the key store: no step of the call issues an upstream key request
\* or waits for one, reads the cache, or changes the cache, and the only key
\* handed to the decryption is the supplied one, so that a call that returns
\* has decrypted with the supplied key, whatever the cache holds.
C7_ExplicitKeyBypass ==
  [][\A t \in Tasks :
       (/\ task'[t] # task[t]
        /\ task'[t].op \in DispatchOps
        /\ SuppliedKey(task'[t].secB64))
       => /\ SECURITY_CACHE' = SECURITY_CACHE
          /\ lastWrite' = lastWrite
          /\ task'[t].keyReqs = 0
          /\ task'[t].saw = "nothing"
          /\ task'[t].pc \notin KeyInFlight
          /\ task'[t].contentReqs = 1
          /\ task'[t].usedKey \in {Undefined, task'[t].secB64}
          /\ task'[t].result.kind = "return"
               => task'[t].usedKey = task'[t].secB64]_vars

\* a call given K2 has returned the value encrypted under K2 while the cache
\* holds K1, fresh
C7_Witness ==
  \E t \in Tasks :
    /\ task[t].pc = "done"
    /\ task[t].op \in DispatchOps
    /\ task[t].secB64 = Str(K2)
    /\ SECURITY_CACHE.value = Str(K1)
    /\ CacheFresh(SECURITY_CACHE, clock)
    /\ task[t].result = Return(PlainValue)
    /\ task[t].usedKey = Str(K2)
    /\ task[t].keyReqs = 0

\* task t takes a step of a dispatcher operation
DispatchStep(t) == task'[t] # task[t] /\ task'[t].op \in DispatchOps

\* the step settles the operation of task t with a failure
Fails(t) ==
  /\ task[t].pc # "done"
  /\ task'[t].pc = "done"
  /\ task'[t].result.kind = "throw"

\* C12: an invocation of a dispatcher operation issues exactly one upstream
\* content request and at most one upstream key request; a settled
\* operation takes no further step; the step at which it fails issues no
\* request, and leaves the cache as it was, never emptied and never
\* refreshed, unless that very step is the one at which the operation's own
\* key request succeeded.
C12_NoAutomaticRetries ==
  [][\A t \in Tasks :
       DispatchStep(t)
       => /\ task[t].pc # "done"
          /\ task'[t].contentReqs = 1
          /\ task'[t].keyReqs \in {0, 1}
          /\ task[t].pc # "idle"
               => /\ task'[t].contentReqs = task[t].contentReqs
                  /\ task'[t].keyReqs >= task[t].keyReqs
          /\ Fails(t)
               => /\ task'[t].keyReqs = task[t].keyReqs
                  /\ task'[t].contentReqs = task[t].contentReqs
                  /\ SECURITY_CACHE.value # Null
                       => SECURITY_CACHE'.value # Null
                  /\ \/ SECURITY_CACHE' = SECURITY_CACHE
                     \/ /\ task[t].pc = "keyBody"
                        /\ GoodKeyBody(task'[t].resp)
                        /\ SECURITY_CACHE' =
                             [value |-> FetchedKey(task'[t].resp),
                              fetchedAt |-> task[t].now]]_vars

\* a call without a key has failed to decrypt with the cached key: one
\* content request, no key request, the cache still holding that key
C12_Witness ==
  \E t \in Tasks :
    /\ task[t].pc = "done"
    /\ task[t].op \in DispatchOps
    /\ task[t].secB64 = Null
    /\ task[t].saw = "fresh"
    /\ task[t].result = Throw("DecryptionError")
    /\ task[t].usedKey = SECURITY_CACHE.value
    /\ task[t].contentReqs = 1
    /\ task[t].keyReqs = 0
    /\ SECURITY_CACHE = lastWrite
    /\ SECURITY_CACHE.value # Null

\* the key texts and the plaintexts of the dispatcher model
KeysOfModel == {K1, K2}

PlainsOfModel == {PlainJson, PlainText}

\* the operation of task t was invoked without a key
NoSuppliedKey(t) == ~ SuppliedKey(task'[t].secB64)

\* C15: a dispatcher operation invoked without a key, whose content answer
\* was a JSON envelope {data: c} with c the ciphertext of the text of a JSON
\* value v under the key k, and which found the cache empty and was answered
\* {code: 200, data: k} by the key endpoint, returns exactly v, and the
\* cache holds k once it has returned.
C15_EndToEnd ==
  [][\A t \in Tasks : \A k \in KeysOfModel : \A p \in PlainsOfModel :
       (/\ DispatchStep(t)
        /\ NoSuppliedKey(t)
        /\ task[t].pc = "keyBody"
        /\ task[t].saw = "empty"
        /\ task[t].cipher = <<Enc(deriveKeyFromSec(k), p)>>
        /\ ParseJSON(p).ok
        /\ GoodKeyBody(task'[t].resp)
        /\ FetchedKey(task'[t].resp) = Str(k))
       => /\ task'[t].pc = "done"
          /\ task'[t].result = Return(ParseJSON(p).value)
          /\ task'[t].keyReqs = 1
          /\ task'[t].contentReqs = 1
          /\ SECURITY_CACHE'.value = Str(k)]_vars

\* an operation that found the cache empty has fetched K1 and returned the
\* value the upstream encrypted under K1, and the cache holds K1
C15_Witness ==
  \E t \in Tasks :
    /\ task[t].pc = "done"
    /\ task[t].op \in DispatchOps
    /\ task[t].secB64 = Null
    /\ task[t].saw = "empty"
    /\ task[t].keyReqs = 1
    /\ GoodKeyBody(task[t].resp)
    /\ FetchedKey(task[t].resp) = Str(K1)
    /\ task[t].usedKey = Str(K1)
    /\ task[t].result = Return(PlainValue)
    /\ SECURITY_CACHE.value = Str(K1)

(***************************************************************************)
(* The cache over a run of operations (SpecSerial).                        *)
(***************************************************************************)
\* the step is the one at which the key request of task t succeeds, and the
\* cache becomes the key of the answer with the time the call read
CacheWrittenBy(t) ==
  /\ task[t].pc = "keyBody"
  /\ task'[t].pc = "done"
  /\ GoodKeyBody(task'[t].resp)
  /\ SECURITY_CACHE' = [value |-> FetchedKey(task'[t].resp),
                        fetchedAt |-> task[t].now]

\* task t consults the key store at this step
EntersKeyStore(t) == task[t].saw = "nothing" /\ task'[t].saw # "nothing"

\* the cache changes only at a successful key request, to a pair written
\* whole, and is never emptied; a call that finds it empty asks the upstream
CacheLifecycle ==
  /\ SECURITY_CACHE' # SECURITY_CACHE
       => /\ \E t \in Tasks : CacheWrittenBy(t)
          /\ SECURITY_CACHE'.value # Null
  /\ \A t \in Tasks :
       /\ (DispatchStep(t) /\ SuppliedKey(task'[t].secB64))
            => SECURITY_CACHE' = SECURITY_CACHE
       /\ (EntersKeyStore(t) /\ SECURITY_CACHE.value = Null)
            => task'[t].pc = "keyFetch" /\ task'[t].keyReqs = 1

\* C16 as stated: every step at which an operation fails, whatever failed,
\* leaves the cache exactly as it was.
C16_EveryFailureLeavesCache ==
  [][/\ CacheLifecycle
     /\ \A t \in Tasks : Fails(t) => SECURITY_CACHE' = SECURITY_CACHE]_vars

\* C16: the cache changes only through a successful upstream key fetch; an
\* operation that fails leaves it as it was unless the failure (decryption,
\* JSON parse) comes after the operation's own key request has succeeded,
\* when the fetched key has been stored; an operation with a supplied key
\* never changes it; it is written whole and never emptied.
C16_CacheChangesOnlyByKeyFetch ==
  [][/\ CacheLifecycle
     /\ \A t \in Tasks :
          Fails(t) => \/ SECURITY_CACHE' = SECURITY_CACHE
                      \/ /\ CacheWrittenBy(t)
                         /\ task'[t].op \in DispatchOps
                         /\ task'[t].result.error
                              \in {"DecryptionError", "SyntaxError"}]_vars

\* a key fetch on an expired entry has failed, and the entry is still there
C16_Witness ==
  \E t \in Tasks :
    /\ task[t].pc = "done"
    /\ task[t].saw = "expired"
    /\ task[t].keyReqs = 1
    /\ task[t].result.error = "UnexpectedKeyResponse"
    /\ SECURITY_CACHE.value # Null
    /\ SECURITY_CACHE = lastWrite
    /\ clock - SECURITY_CACHE.fetchedAt >= SECURITY_TTL_MS

(***************************************************************************)
(* The order of the pipeline (SpecDispatch).                               *)
(***************************************************************************)
\* the content answers from which r, once read, is what task t holds
ContentAnswerOf(t) ==
  {r \in CoreContentResponses(OpUrl(task'[t].op)) :
     ResponseAfterExtract(r) = task'[t].resp}

\* C17: in a dispatcher operation invoked without a key, the key store is
\* consulted only at the step that has extracted a ciphertext that is not
\* empty from the answer to the one content request; while the content
\* request is in flight, and when it or the extraction fails, no key request
\* has been issued and the cache has been neither read nor changed.
C17_ContentBeforeKey ==
  [][\A t \in Tasks :
       (DispatchStep(t) /\ NoSuppliedKey(t))
       => /\ task'[t].pc \in {"contentFetch", "contentBody"}
               => task'[t].keyReqs = 0 /\ task'[t].saw = "nothing"
          /\ (EntersKeyStore(t) \/ task'[t].keyReqs > task[t].keyReqs)
               => /\ task[t].pc = "contentBody"
                  /\ task[t].contentReqs = 1
                  /\ SECURITY_CACHE' = SECURITY_CACHE
                  /\ \/ /\ task'[t].pc = "keyFetch"
                        /\ NonBlank(task'[t].cipher)
                        /\ \E r \in CoreContentResponses(OpUrl(task'[t].op)) :
                             extractCipherFromResponse(r)
                               = Return(task'[t].cipher)
                     \/ /\ task'[t].pc = "done"
                        /\ ContentAnswerOf(t) # {}
                        /\ \A r \in ContentAnswerOf(t) :
                             LET c == extractCipherFromResponse(r)
                             IN c.kind = "return" /\ NonBlank(c.value)
                        /\ task'[t].result.error # "EmptyCiphertext"
          /\ (task[t].pc = "contentFetch" /\ task'[t].pc = "done")
               => /\ task'[t].keyReqs = 0
                  /\ task'[t].saw = "nothing"
                  /\ SECURITY_CACHE' = SECURITY_CACHE
          /\ (/\ task[t].pc = "contentBody"
              /\ task'[t].pc = "done"
              /\ \E r \in ContentAnswerOf(t) :
                   extractCipherFromResponse(r).kind = "throw")
               => /\ task'[t].keyReqs = 0
                  /\ task'[t].saw = "nothing"
                  /\ task'[t].usedKey = Undefined
                  /\ SECURITY_CACHE' = SECURITY_CACHE]_vars

\* an operation invoked without a key has failed at the extraction while the
\* cache was empty: no key request, the cache not read
C17_Witness ==
  \E t \in Tasks :
    /\ task[t].pc = "done"
    /\ task[t].op \in DispatchOps
    /\ task[t].secB64 = Null
    /\ task[t].result.error = "EmptyResponse"
    /\ task[t].contentReqs = 1
    /\ task[t].keyReqs = 0
    /\ task[t].saw = "nothing"
    /\ SECURITY_CACHE = EmptyCache

(***************************************************************************)
(* Properties of decryptB64 and deriveKeyFromSec (SpecPure).               *)
(***************************************************************************)
\* the ciphertext argument is empty or absent
EmptyOrAbsent(c) == c \in {Undefined, Null, Str(<< >>)}

\* C11: decryptB64 on an empty or absent ciphertext fails with the
\* empty-ciphertext error under every key argument, a key that cannot be
\* decoded or derived from included: the check comes before any decoding,
\* derivation or cipher operation, none of whose failures is ever seen.
C11_EmptyCiphertextFirst ==
  (call.fn = "decryptB64" /\ returned # NoOutcome
     /\ EmptyOrAbsent(call.cipherB64))
  => returned = Throw("EmptyCiphertext")

\* an absent ciphertext with a key whose decoding would throw
C11_Witness ==
  /\ call.fn = "decryptB64"
  /\ call.cipherB64 = Undefined
  /\ call.secB64 = Num(0)
  /\ returned = Throw("EmptyCiphertext")

\* C13: deriveKeyFromSec returns, for a key text of any length, exactly 16
\* bytes: the bytes the text decodes to followed by the suffix bytes, padded
\* with zero bytes on the right when these are fewer than 16 and cut to the
\* first 16 when they are more; the bytes depend on the text alone.
C13_DerivedKeyShape ==
  (call.fn = "deriveKeyFromSec" /\ returned # NoOutcome)
  => LET material == Base64Decode(call.secB64) \o SUFFIX
     IN /\ returned.kind = "return"
        /\ Len(returned.value) = 16
        /\ \A i \in 1..16 :
             /\ returned.value[i] \in 0..255
             /\ returned.value[i] =
                  IF i <= Len(material) THEN material[i] ELSE 0
        /\ \A s \in KeyTexts :
             s = call.secB64 => deriveKeyFromSec(s) = returned.value

\* a key text that decodes to 11 bytes, so that the last suffix byte is cut
C13_Witness ==
  /\ call.fn = "deriveKeyFromSec"
  /\ returned.kind = "return"
  /\ Len(Base64Decode(call.secB64)) = 11
  /\ Len(returned.value) = 16
  /\ SubSeq(returned.value, 12, 16) = SubSeq(SUFFIX, 1, 5)

(***************************************************************************)
(* Properties of parseNumber (SpecPure).                                   *)
(***************************************************************************)
\* x is an integer: a number that is neither NaN nor an infinity
IsInteger(x) == x.t = "number" /\ ~ IsNaN(x) /\ ~ IsInfinite(x)

\* the text begins, after white space and a sign, with a digit
BeginsWithInteger(text) ==
  \E i \in 1..Len(text) :
    /\ IsDigit(text[i])
    /\ \A j \in 1..(i - 1) :
         \/ IsWs(text[j])
         \/ /\ text[j].c \in {"-", "+"}
            /\ j = i - 1
    /\ \A j \in 1..(i - 2) : IsWs(text[j])

ParsesAsInteger(value) ==
  value.t = "number" \/ (value.t = "string" /\ BeginsWithInteger(value.v))

\* the page and size that the handlers compute are within their bounds
PageAndSizeWithinBounds ==
  /\ call.options = PageOptions
       => IsInteger(returned.value) /\ ~ LessThan(returned.value, 1)
  /\ call.options = SizeOptions
       => /\ IsInteger(returned.value)
          /\ ~ LessThan(returned.value, 1)
          /\ ~ GreaterThan(returned.value, 50)

\* parseNumber returns the fallback, min, max or the parsed value
ParseNumberCases ==
  LET parsed == ParseInt(call.value)
      min == call.options.min
      max == call.options.max
      below == min.t = "number" /\ LessThan(parsed, min.v)
      above == max.t = "number" /\ GreaterThan(parsed, max.v)
  IN IF ~ ParsesAsInteger(call.value) THEN returned.value = call.fallback
     ELSE IF below THEN returned.value = min
     ELSE IF above THEN returned.value = max
     ELSE returned.value = parsed

\* C19: for every value of the page and size query parameters the page the
\* home and search handlers compute is an integer >= 1 and the size an
\* integer in 1..50, and parseNumber returns the fallback for what does not
\* parse as an integer, min below min, max above max, and the parsed value
\* otherwise.
C19_PaginationBounds ==
  (call.fn = "parseNumber" /\ returned # NoOutcome)
  => /\ returned.kind = "return"
     /\ PageAndSizeWithinBounds
     /\ ParseNumberCases

(***************************************************************************)
(* Properties of the handlers (SpecHandler).                               *)
(***************************************************************************)
\* the request has the method its handler serves
RightMethod(req) ==
  req.method = (IF req.handler \in {"videoV1", "video2"} THEN "POST"
                ELSE "GET")

\* the parameters a handler requires, and where the request carries them
RequiredParams(h) ==
  CASE h = "search" -> {"keyword"}
    [] h = "details" -> {"movie_id"}
    [] h = "videoV1" -> {"movie_id", "episode_id", "language_id"}
    [] h = "video2" -> {"movie_id", "episode_id"}
    [] OTHER -> {}

ParamOf(req, name) ==
  IF req.handler \in {"videoV1", "video2"}
  THEN (IF req.body = Undefined THEN Undefined ELSE req.body.v[name])
  ELSE req.query.v[name]

\* a required parameter is missing from the request
MissingParam(req) ==
  \E name \in RequiredParams(req.handler) : ParamOf(req, name) = Undefined

\* every required parameter is there and is not empty, zero or null
ParamsGiven(req) ==
  \A name \in RequiredParams(req.handler) : Truthy(ParamOf(req, name))

\* a request arrives at task t
Arrives(t) == task[t].pc = "idle" /\ task'[t].pc # "idle"

\* task t has touched neither the upstream nor the key store
NoUpstreamActivity(t) ==
  /\ task'[t].contentReqs = 0
  /\ task'[t].keyReqs = 0
  /\ task'[t].saw = "nothing"
  /\ task'[t].usedKey = Undefined
  /\ task'[t].op = "none"
  /\ SECURITY_CACHE' = SECURITY_CACHE

\* the response of task t is sent once: nothing is sent before the handler
\* responds, and after it the handler only returns
SentOnce(t) ==
  /\ task'[t].res # NoRes => task'[t].pc = "responded"
  /\ (task[t].pc = "responded" /\ task'[t] # task[t])
       => task'[t] = IdleTask
  /\ (task[t].pc = "done" /\ task'[t] # task[t])
       => /\ task'[t].pc = "responded"
          /\ task'[t].result = task[t].result
          /\ task'[t].res.status \in {200, 502}
  /\ (Arrives(t) /\ RightMethod(task'[t].req) /\ ParamsGiven(task'[t].req))
       => task'[t].res = NoRes

\* the core call of task t has failed and the handler answers 502 with the
\* failure
FailureMapped(t) ==
  (task[t].pc = "done" /\ task'[t] # task[t]
     /\ task[t].result.kind = "throw")
  => /\ task'[t].res.status = 502
     /\ task'[t].res.error = task[t].result

\* C14 as stated: every handler whose core call succeeds answers 200 with
\* the value the core returned, unchanged.
C14_EveryHandlerPassesThrough ==
  [][\A t \in Tasks :
       /\ SentOnce(t)
       /\ FailureMapped(t)
       /\ (task[t].pc = "done" /\ task'[t] # task[t]
             /\ task[t].result.kind = "return")
          => /\ task'[t].res.status = 200
             /\ task'[t].res.json = task[t].result.value]_vars

\* C14: a request that passes the method and parameter checks is answered
\* exactly once, when its core call has settled: 200 with the value the
\* core returned, unchanged, from the five content handlers, 200 with
\* {securityKey: key} from the key handler, and 502 carrying the failure
\* when the core call failed, whatever failed.
C14_OutcomeMapping ==
  [][\A t \in Tasks :
       /\ SentOnce(t)
       /\ FailureMapped(t)
       /\ (task[t].pc = "done" /\ task'[t] # task[t]
             /\ task[t].result.kind = "return")
          => /\ task'[t].res.status = 200
             /\ task[t].req.handler # "key"
                  => task'[t].res.json = task[t].result.value
             /\ task[t].req.handler = "key"
                  => /\ task'[t].res.json.t = "object"
                     /\ DOMAIN task'[t].res.json.v = {"securityKey"}
                     /\ task'[t].res.json.v["securityKey"]
                          = task[t].result.value]_vars

\* a content handler has answered 502 with the TypeError of the extraction
C14_Witness ==
  \E t \in Tasks :
    /\ task[t].pc = "responded"
    /\ task[t].req.handler \in Handlers \ {"key"}
    /\ task[t].result.kind = "throw"
    /\ task[t].result.error = "TypeError"
    /\ task[t].res.status = 502
    /\ task[t].res.error.error = "TypeError"

\* C18: a request with the wrong method is answered 405, and a request with
\* the right method that lacks a required parameter is answered 400, at the
\* step it arrives: no core function is called, no content or key request
\* is issued, and the cache is neither read nor changed.
C18_ValidationFirst ==
  [][\A t \in Tasks :
       Arrives(t)
       => /\ ~ RightMethod(task'[t].req)
               => /\ task'[t].pc = "responded"
                  /\ task'[t].res.status = 405
                  /\ NoUpstreamActivity(t)
          /\ (RightMethod(task'[t].req) /\ MissingParam(task'[t].req))
               => /\ task'[t].pc = "responded"
                  /\ task'[t].res.status = 400
                  /\ NoUpstreamActivity(t)]_vars

\* the video handler has answered 400 to a body without language_id while
\* the cache holds a key
C18_Witness ==
  \E t \in Tasks :
    /\ task[t].pc = "responded"
    /\ task[t].req.handler = "videoV1"
    /\ task[t].req.method = "POST"
    /\ task[t].req.body # Undefined
    /\ Truthy(task[t].req.body.v["movie_id"])
    /\ Truthy(task[t].req.body.v["episode_id"])
    /\ task[t].req.body.v["language_id"] = Undefined
    /\ task[t].res.status = 400
    /\ task[t].contentReqs = 0
    /\ task[t].keyReqs = 0
    /\ SECURITY_CACHE.value = Str(K1)

====
